---- MODULE Spec2Model ----
(***************************************************************************)
(* Ball arena (src/engine/Game.ts, third revision, lines 372-838, with     *)
(* src/engine/objects/Ring.ts lines 235-562 and KillBoundary.ts).           *)
(*                                                                         *)
(* Four specifications share the module:                                   *)
(*   Spec       the entity lifecycle: init with its two awaits, destroy,   *)
(*              the per-step drain of the collision events through Ring    *)
(*              and KillBoundary, the spawn/escape/kill handlers and the   *)
(*              cooldown timers;                                           *)
(*   FaultSpec  Spec with physics calls that throw in the middle of a      *)
(*              step;                                                      *)
(*   ClockSpec  the ticker callback of startLoop: the accumulator, the     *)
(*              fixed steps it releases and the ring rotation;             *)
(*   RingSpec   the segment loop of Ring.createPhysics over the gap.       *)
(* The accumulator never reads the entity state and the handlers never     *)
(* read the accumulator, so each is explored on its own.                   *)
(*                                                                         *)
(* The physics engine (Rapier) is an external collaborator.  Its choices   *)
(* are nondeterministic here: which body handle a new ball receives (a     *)
(* freed handle, or the next index of the arena) and which                 *)
(* collision events a world step reports for the colliders that existed    *)
(* when the world was stepped.  The event queue can only be read through   *)
(* the drain callback, so each event is drawn when the callback runs on    *)
(* it; the balls the events can name are fixed in `snapshot` at the step.  *)
(* The cooldown timers all wait 500 ms; their expiry order is left open,   *)
(* which includes the first-in first-out order of the event loop.          *)
(*                                                                         *)
(* Time is counted in whole quanta, StepDuration of them to one fixedDt.   *)
(***************************************************************************)
EXTENDS Integers, Sequences, FiniteSets, TLC

\* ---------------------------------------------------------------- bounds
\* GAME_CONFIG.gameplay.maxBalls ranges over 0..MaxBallsCap
MaxBallsCap == 3
\* GAME_CONFIG.spawning.onRingEscape.count ranges over 0..onRingEscapeCount,
\* the configured value
onRingEscapeCount == 2
\* quanta in one fixed step (GAME_CONFIG.physics.fixedDt)
StepDuration == 4
\* a burst of steps in one tick that a cap on the accumulator would forbid
BurstCap == 2
\* the largest wall-clock delta of one tick, in steps
MaxDeltaSteps == 3
\* wall-clock time explored, in steps
MaxElapsedSteps == 6
MaxDelta == MaxDeltaSteps * StepDuration + 1
MaxElapsed == MaxElapsedSteps * StepDuration
\* GAME_CONFIG.physics.fixedDt in quanta, and as steps per second (1/120 s)
fixedDt == StepDuration
fixedDtRate == 120
QuantaPerSecond == fixedDtRate * StepDuration
\* GAME_CONFIG.ring.spinSpeed
spinSpeed == 1
\* GAME_CONFIG.ring.segments ranges up to Segments; angles are counted in
\* half slots, so a full turn is 2 * Segments and slot i has its midpoint,
\* totalAngleStep * (i + 0.5), at 2 * i + 1
Segments == 4
TwoPi == 2 * Segments
\* the screen's width and height range over 1..MaxScreen
MaxScreen == 3
\* KillBoundaryConfig.offset ranges over 0..MaxOffset and its thickness over
\* the even numbers from 2 to 2 * MaxHalfThickness
MaxOffset == 1
MaxHalfThickness == 1
\* resize events in one run
MaxResizes == 2
\* RingConfig.radius ranges over 1..MaxRadius
MaxRadius == 2
\* RingConfig.thickness ranges over the multiples of 4 up to
\* 4 * MaxThicknessQuarters, so that thickness / 2 and thickness / 4 are exact
MaxThicknessQuarters == 1
\* RingConfig.cornerRadius is absent or ranges over -1..MaxCornerRadius
MaxCornerRadius == 1

Min(a, b) == IF a <= b THEN a ELSE b
Max(a, b) == IF a >= b THEN a ELSE b

\* ------------------------------------------------------------- colliders
\* Collider handles.  A ball has one body and one collider, created and
\* freed together, so the collider of the body with handle h is named by h.
BallCollider(h) == [kind |-> "ball", n |-> h]
escapeSensorColliders == {[kind |-> "escape", n |-> 1], [kind |-> "escape", n |-> 2]}
ringColliders == {[kind |-> "ring", n |-> 1]}
killSensorColliders == {[kind |-> "kill", n |-> 1], [kind |-> "kill", n |-> 2]}
StaticColliders == escapeSensorColliders \cup ringColliders \cup killSensorColliders
NoCollider == [kind |-> "none", n |-> 0]

ringObject == [kind |-> "ring", id |-> 0]
killBoundaryObject == [kind |-> "killBoundary", id |-> 0]
BallObject(b) == [kind |-> "ball", id |-> b]

VARIABLES
    pc,                      \* "load" (init waits for the physics module) | "init" (init
                             \* waits for the renderer) | "failed" | "idle" | "world" (a
                             \* step has set the ring's target) | "drain" |
                             \* "faulted" (an exception left the ticker callback)
    maxBalls,                \* GAME_CONFIG.gameplay.maxBalls
    spawnCount,              \* GAME_CONFIG.spawning.onRingEscape.count
    totalBallsSpawned,
    escapedBallsCount,
    balls,                   \* Game.balls: live balls, by ball serial number
    objects,                 \* Game.objects
    worldBodies,             \* body handles of the balls in the physics world
    bodyHandle,              \* bodyHandle[b]: Ball.body.handle of the b-th ball spawned
    escapedBallHandles,      \* Ring.escapedBallHandles
    particleCollisionHandles,\* Ring.particleCollisionHandles
    killedBallHandles,       \* KillBoundary.killedBallHandles
    timers,                  \* pending setTimeout callbacks of handleRingCollision: the handle
                             \* each one captured, with the ball that touched the ring
    arenaSize,               \* body handles the engine has issued so far: 1..arenaSize
    snapshot,                \* balls in the world when the current step ran world.step
                             \* (empty between steps: the queue is drained)
    escapeCalls,             \* escapeCalls[b]: escape callbacks fired for ball b
    killCalls,               \* killCalls[b]: kill callbacks fired for ball b
    integrationDt,           \* world.integrationParameters.dt, 0 while there is no world
    initResult,              \* the promise of init(): "pending" | "resolved" | "rejected"
    loopStarted,             \* startLoop has added the ticker callback
    appState,                \* Game.app: "none" | "constructed" | "ready" | "destroyed"
    resizeListener,          \* window listens to 'resize' with resizeHandler
    orientationListener,     \* window listens to 'orientationchange' with the arrow function
    destroyed,               \* destroy() has been called
    destroyThrew,            \* that call ended in an exception
    phases,                  \* the phases the current or last step has run, in order
    synced,                  \* the objects whose updateFromPhysics this step has called
    clockPc,                 \* the ticker callback: "idle" | "loop"
    acc,                     \* startLoop's acc
    elapsed,                 \* wall-clock time since startLoop
    stepCount,               \* simulation steps performed so far
    tickSteps,               \* simulation steps performed by the current tick
    ringStepDt,              \* the fixedStep the last ring.step was called with
    rotation,                \* the ring body's rotation, in radians times quanta
    gapStartAngle,           \* Ring.createPhysics: gapCenterAngle - gapAngle / 2
    gapEndAngle,             \* Ring.createPhysics: gapCenterAngle + gapAngle / 2
    slot,                    \* the i of the segment loop of createPhysics
    segmentSlots,            \* slots for which a ring segment collider was created
    radius,                  \* RingConfig.radius
    thickness,               \* RingConfig.thickness
    cornerRadius,            \* RingConfig.cornerRadius: <<>> when absent, else <<r>>
    sensorSlot,              \* i of the escape sensor loop of createPhysics
    escapeSensorAngles,      \* Ring.escapeSensorColliders: the angle of each sensor, as pushed
    cornerColliders,         \* Ring.cornerColliders: the placement of each capsule
    ringBuilt,               \* createPhysics has returned
    screenWidth,             \* app.screen.width
    screenHeight,            \* app.screen.height
    currentPPM,              \* the scale manager's pixels per metre, in halves
    offset,                  \* KillBoundaryConfig.offset
    halfThickness,           \* KillBoundaryConfig.thickness / 2
    killBoundaryScreen,      \* screenDimensions of Game.killBoundary, <<>> before init
    sensorColliders,         \* sensorColliders of Game.killBoundary: four cuboids
    worldKillBodies,         \* kill-boundary bodies the world holds
    worldKillSensors,        \* kill-boundary sensor colliders the world holds
    onBallKill,              \* Game.killBoundary has its kill handler
    resizes                  \* resize events handled so far

gameVars == <<pc, maxBalls, spawnCount, totalBallsSpawned, escapedBallsCount, balls,
              objects, worldBodies, bodyHandle, escapedBallHandles,
              particleCollisionHandles, killedBallHandles, timers, arenaSize, snapshot,
              escapeCalls, killCalls, integrationDt>>
hostVars == <<initResult, loopStarted, appState, resizeListener, orientationListener,
              destroyed, destroyThrew>>
clockVars == <<clockPc, acc, elapsed, stepCount, tickSteps, ringStepDt, rotation>>
ringVars == <<gapStartAngle, gapEndAngle, slot, segmentSlots, radius, thickness, cornerRadius,
              sensorSlot, escapeSensorAngles, cornerColliders, ringBuilt>>
frameVars == <<phases, synced>>
boundaryVars == <<screenWidth, screenHeight, currentPPM, offset, halfThickness,
                  killBoundaryScreen, sensorColliders, worldKillBodies, worldKillSensors,
                  onBallKill, resizes>>
vars == <<gameVars, hostVars, clockVars, ringVars, frameVars, boundaryVars>>

\* ----------------------------------------------------------------- state
\* The handlers run one after the other on the same objects; each is an
\* operator from a state record to a state record.
Cur ==
    [maxBalls |-> maxBalls, spawnCount |-> spawnCount,
     totalBallsSpawned |-> totalBallsSpawned, escapedBallsCount |-> escapedBallsCount,
     balls |-> balls, objects |-> objects, worldBodies |-> worldBodies,
     bodyHandle |-> bodyHandle, escapedBallHandles |-> escapedBallHandles,
     particleCollisionHandles |-> particleCollisionHandles,
     killedBallHandles |-> killedBallHandles, timers |-> timers,
     arenaSize |-> arenaSize, escapeCalls |-> escapeCalls, killCalls |-> killCalls,
     picks |-> <<>>]

Commit(s) ==
    /\ totalBallsSpawned' = s.totalBallsSpawned
    /\ escapedBallsCount' = s.escapedBallsCount
    /\ balls' = s.balls
    /\ objects' = s.objects
    /\ worldBodies' = s.worldBodies
    /\ bodyHandle' = s.bodyHandle
    /\ escapedBallHandles' = s.escapedBallHandles
    /\ particleCollisionHandles' = s.particleCollisionHandles
    /\ killedBallHandles' = s.killedBallHandles
    /\ timers' = s.timers
    /\ escapeCalls' = s.escapeCalls
    /\ killCalls' = s.killCalls
    /\ arenaSize' = s.arenaSize

\* position of x in sequence q, 0 when absent (Array.indexOf / findIndex, 1-based)
IndexOf(q, x) ==
    IF \E i \in 1..Len(q) : q[i] = x
    THEN CHOOSE i \in 1..Len(q) : q[i] = x /\ \A j \in 1..(i - 1) : q[j] # x
    ELSE 0

\* Array.splice(i, 1)
Splice(q, i) == [j \in 1..(Len(q) - 1) |-> IF j < i THEN q[j] ELSE q[j + 1]]

\* the live ball whose body has handle h, 0 when none
\* (balls.findIndex(ball => ball.body.handle === h))
FindBall(s, h) ==
    IF \E i \in 1..Len(s.balls) : s.bodyHandle[s.balls[i]] = h
    THEN LET i == CHOOSE i \in 1..Len(s.balls) :
                    /\ s.bodyHandle[s.balls[i]] = h
                    /\ \A j \in 1..(i - 1) : s.bodyHandle[s.balls[j]] # h
         IN i
    ELSE 0

\* the callback named by `field` is invoked with the body whose handle is h:
\* counted against the live ball that owns the handle
noteCallback(s, field, h) ==
    LET i == FindBall(s, h)
    IN IF i = 0 THEN s ELSE [s EXCEPT ![field][s.balls[i]] = @ + 1]

\* ------------------------------------------------------------------ Game
\* world.createRigidBody: the engine's arena gives the new body a freed
\* handle (the pick) or, with no pick, the next index it has never issued
createRigidBody(s) ==
    LET pick == IF s.picks = <<>> THEN 0 ELSE Head(s.picks)
    IN IF pick \in (1..s.arenaSize) \ s.worldBodies THEN pick ELSE s.arenaSize + 1

\* Game.spawnBall
spawnBall(s) ==
    LET h == createRigidBody(s)
        b == Len(s.bodyHandle) + 1
    IN [s EXCEPT !.totalBallsSpawned = @ + 1,
                 !.arenaSize = Max(@, h),
                 !.balls = Append(@, b),
                 !.objects = Append(@, BallObject(b)),
                 !.worldBodies = @ \cup {h},
                 !.bodyHandle = Append(@, h),
                 !.escapeCalls = Append(@, 0),
                 !.killCalls = Append(@, 0),
                 !.picks = IF @ = <<>> THEN @ ELSE Tail(@)]

RECURSIVE spawnLoop(_, _)
\* for (let i = 0; i < ballsToSpawn; i++) this.spawnBall(...)
spawnLoop(s, n) == IF n <= 0 THEN s ELSE spawnLoop(spawnBall(s), n - 1)

\* spawnRingEscapeBalls without the Math.min against the remaining room
spawnRingEscapeBallsUnclamped(s) ==
    IF s.totalBallsSpawned >= s.maxBalls THEN s ELSE spawnLoop(s, s.spawnCount)

\* Game.spawnRingEscapeBalls
spawnRingEscapeBalls(s) ==
    IF s.totalBallsSpawned >= s.maxBalls
    THEN s
    ELSE spawnLoop(s, Min(s.spawnCount, s.maxBalls - s.totalBallsSpawned))

\* handleBallRingEscape counting the escape only when a spawn is admitted
handleBallRingEscapeAdmittedOnly(s, h) ==
    IF s.totalBallsSpawned >= s.maxBalls
    THEN s
    ELSE spawnRingEscapeBalls([s EXCEPT !.escapedBallsCount = @ + 1])

\* Game.handleBallRingEscape, called with the body whose handle is h
handleBallRingEscape(s, h) ==
    spawnRingEscapeBalls([s EXCEPT !.escapedBallsCount = @ + 1])

\* cleanupEscapedBall that forgets nothing
cleanupEscapedBallKeep(s, h) == s

\* Ring.cleanupEscapedBall
cleanupEscapedBall(s, h) == [s EXCEPT !.escapedBallHandles = @ \ {h}]

\* cleanupKilledBall that forgets nothing
cleanupKilledBallKeep(s, h) == s

\* KillBoundary.cleanupKilledBall
cleanupKilledBall(s, h) == [s EXCEPT !.killedBallHandles = @ \ {h}]

\* handleBallKill splicing at the index it found without the test for -1:
\* Array.splice(-1, 1) removes the last element
handleBallKillUnguarded(s, h) ==
    LET killedIndex == FindBall(s, h)
        at == IF killedIndex = 0 THEN Len(s.balls) ELSE killedIndex
        b == IF at = 0 THEN 0 ELSE s.balls[at]
        prefabIndex == IndexOf(s.objects, BallObject(b))
        s1 == IF at = 0
              THEN s
              ELSE [s EXCEPT !.balls = Splice(@, at),
                             !.objects = IF prefabIndex = 0 THEN @ ELSE Splice(@, prefabIndex)]
        s2 == [s1 EXCEPT !.worldBodies = @ \ {h}]
    IN cleanupKilledBall(cleanupEscapedBall(s2, h), h)

\* handleBallKill that gives the killed ball's place under the cap back
handleBallKillFreesSlot(s, h) ==
    LET killedIndex == FindBall(s, h)
        b == IF killedIndex = 0 THEN 0 ELSE s.balls[killedIndex]
        prefabIndex == IndexOf(s.objects, BallObject(b))
        s1 == IF killedIndex = 0
              THEN s
              ELSE [s EXCEPT !.balls = Splice(@, killedIndex),
                             !.objects = IF prefabIndex = 0 THEN @ ELSE Splice(@, prefabIndex),
                             !.totalBallsSpawned = @ - 1]
        s2 == [s1 EXCEPT !.worldBodies = @ \ {h}]
    IN cleanupKilledBall(cleanupEscapedBall(s2, h), h)

\* handleBallKill that leaves the killed ball's prefab in the object list
handleBallKillKeepsObject(s, h) ==
    LET killedIndex == FindBall(s, h)
        s1 == IF killedIndex = 0 THEN s ELSE [s EXCEPT !.balls = Splice(@, killedIndex)]
        s2 == [s1 EXCEPT !.worldBodies = @ \ {h}]
    IN cleanupKilledBall(cleanupEscapedBall(s2, h), h)

\* Game.handleBallKill, called with the body whose handle is h
handleBallKill(s, h) ==
    LET killedIndex == FindBall(s, h)
        b == IF killedIndex = 0 THEN 0 ELSE s.balls[killedIndex]
        prefabIndex == IndexOf(s.objects, BallObject(b))
        s1 == IF killedIndex = 0
              THEN s
              ELSE [s EXCEPT !.balls = Splice(@, killedIndex),
                             !.objects = IF prefabIndex = 0 THEN @ ELSE Splice(@, prefabIndex)]
        s2 == [s1 EXCEPT !.worldBodies = @ \ {h}]
    IN cleanupKilledBall(cleanupEscapedBall(s2, h), h)

\* ---------------------------------------------------------------- engine
\* world.getCollider(handle): the sensors and ring segments always exist, a
\* ball's collider exists while its body is in the world
getCollider(s, c) ==
    IF c.kind = "ball" /\ c.n \notin s.worldBodies THEN NoCollider ELSE c

isSensor(c) == c.kind \in {"escape", "kill"}

\* collider.parent().handle for a ball's collider
parentHandle(c) == c.n

\* ------------------------------------------------------------------ Ring
\* handleEscapeCollision without the test of escapedBallHandles
handleEscapeCollisionUntracked(s, ballCollider) ==
    LET ballHandle == parentHandle(ballCollider)
    IN handleBallRingEscape(
           noteCallback([s EXCEPT !.escapedBallHandles = @ \cup {ballHandle}],
                        "escapeCalls", ballHandle),
           ballHandle)

\* Ring.handleEscapeCollision
handleEscapeCollision(s, ballCollider) ==
    LET ballHandle == parentHandle(ballCollider)
    IN IF ballHandle \in s.escapedBallHandles
       THEN s
       ELSE handleBallRingEscape(
                noteCallback([s EXCEPT !.escapedBallHandles = @ \cup {ballHandle}],
                             "escapeCalls", ballHandle),
                ballHandle)

\* setTimeout(() => this.particleCollisionHandles.delete(ballHandle), 500),
\* started on the touch of the ball whose body has that handle
setTimeout(s, ballHandle) ==
    LET i == FindBall(s, ballHandle)
    IN [handle |-> ballHandle, ball |-> IF i = 0 THEN 0 ELSE s.balls[i]]

\* handleRingCollision that also records the ball as escaped
handleRingCollisionMarksEscape(s, ballCollider) ==
    LET ballHandle == parentHandle(ballCollider)
    IN IF ballHandle \in s.particleCollisionHandles
       THEN s
       ELSE [s EXCEPT !.particleCollisionHandles = @ \cup {ballHandle},
                      !.timers = @ \cup {setTimeout(s, ballHandle)},
                      !.escapedBallHandles = @ \cup {ballHandle}]

\* handleRingCollision without the test of particleCollisionHandles: every
\* touch tracks the handle and starts a timer
handleRingCollisionNoCooldown(s, ballCollider) ==
    LET ballHandle == parentHandle(ballCollider)
    IN [s EXCEPT !.particleCollisionHandles = @ \cup {ballHandle},
                 !.timers = @ \cup {setTimeout(s, ballHandle)}]

\* Ring.handleRingCollision: the particle effect is advisory; the handle is
\* tracked and a timer is started that forgets it 500 ms later
handleRingCollision(s, ballCollider) ==
    LET ballHandle == parentHandle(ballCollider)
    IN IF ballHandle \in s.particleCollisionHandles
       THEN s
       ELSE [s EXCEPT !.particleCollisionHandles = @ \cup {ballHandle},
                      !.timers = @ \cup {setTimeout(s, ballHandle)}]

\* Ring.processCollisionEvent
ringProcessCollisionEvent(s, h1, h2, started) ==
    LET c1 == getCollider(s, h1)
        c2 == getCollider(s, h2)
        escapeSensor == IF isSensor(c1) THEN c1 ELSE IF isSensor(c2) THEN c2 ELSE NoCollider
        ringCollider == IF c1 \in ringColliders THEN c1
                        ELSE IF c2 \in ringColliders THEN c2 ELSE NoCollider
    IN IF ~started THEN s
       ELSE IF c1 = NoCollider \/ c2 = NoCollider THEN s
       ELSE IF escapeSensor # NoCollider /\ escapeSensor \in escapeSensorColliders
            THEN handleEscapeCollision(s, IF escapeSensor = c1 THEN c2 ELSE c1)
       ELSE IF ringCollider # NoCollider
            THEN handleRingCollision(s, IF ringCollider = c1 THEN c2 ELSE c1)
       ELSE s

\* ---------------------------------------------------------- KillBoundary
\* processCollisionEvent without the test that the sensor is one of the
\* kill boundary's own
killProcessCollisionEventAnySensor(s, h1, h2, started) ==
    LET c1 == getCollider(s, h1)
        c2 == getCollider(s, h2)
        sensor == IF isSensor(c1) THEN c1 ELSE IF isSensor(c2) THEN c2 ELSE NoCollider
        ballCollider == IF sensor = c1 THEN c2 ELSE c1
        ballHandle == parentHandle(ballCollider)
    IN IF ~started THEN s
       ELSE IF c1 = NoCollider \/ c2 = NoCollider THEN s
       ELSE IF sensor = NoCollider THEN s
       ELSE IF ballHandle \in s.killedBallHandles THEN s
       ELSE handleBallKill(
                noteCallback([s EXCEPT !.killedBallHandles = @ \cup {ballHandle}],
                             "killCalls", ballHandle),
                ballHandle)

\* processCollisionEvent without the `if (!started) return`
killProcessCollisionEventAnyPhase(s, h1, h2, started) ==
    LET c1 == getCollider(s, h1)
        c2 == getCollider(s, h2)
        sensor == IF isSensor(c1) THEN c1 ELSE IF isSensor(c2) THEN c2 ELSE NoCollider
        ballCollider == IF sensor = c1 THEN c2 ELSE c1
        ballHandle == parentHandle(ballCollider)
    IN IF c1 = NoCollider \/ c2 = NoCollider THEN s
       ELSE IF sensor = NoCollider THEN s
       ELSE IF sensor \notin killSensorColliders THEN s
       ELSE IF ballHandle \in s.killedBallHandles THEN s
       ELSE handleBallKill(
                noteCallback([s EXCEPT !.killedBallHandles = @ \cup {ballHandle}],
                             "killCalls", ballHandle),
                ballHandle)

\* KillBoundary.processCollisionEvent
killProcessCollisionEvent(s, h1, h2, started) ==
    LET c1 == getCollider(s, h1)
        c2 == getCollider(s, h2)
        sensor == IF isSensor(c1) THEN c1 ELSE IF isSensor(c2) THEN c2 ELSE NoCollider
        ballCollider == IF sensor = c1 THEN c2 ELSE c1
        ballHandle == parentHandle(ballCollider)
    IN IF ~started THEN s
       ELSE IF c1 = NoCollider \/ c2 = NoCollider THEN s
       ELSE IF sensor = NoCollider THEN s
       ELSE IF sensor \notin killSensorColliders THEN s
       ELSE IF ballHandle \in s.killedBallHandles THEN s
       ELSE handleBallKill(
                noteCallback([s EXCEPT !.killedBallHandles = @ \cup {ballHandle}],
                             "killCalls", ballHandle),
                ballHandle)

\* the drain callback of startLoop: the ring first, then the kill boundary
drainCallback(s, h1, h2, started) ==
    killProcessCollisionEvent(ringProcessCollisionEvent(s, h1, h2, started), h1, h2, started)

\* the engine's choices for the next k bodies: each a freed handle, no handle
\* twice, or 0 for an index never issued
Picks(free, k) ==
    {q \in [1..k -> free \cup {0}] : \A i, j \in 1..k : (i # j /\ q[i] # 0) => q[i] # q[j]}

\* the states the drain callback can leave behind on the event "the collider
\* of snapshot ball b and the collider `other`", reported in either order,
\* beginning or ending: one state per choice of handles by the engine (the
\* choices not taken up are the engine's and no part of the state)
EventOutcomes(b, other, started, ballFirst) ==
    LET bc == BallCollider(bodyHandle[b])
        h1 == IF ballFirst THEN bc ELSE other
        h2 == IF ballFirst THEN other ELSE bc
        free == (1..arenaSize) \ worldBodies
        k == IF started /\ other \in escapeSensorColliders THEN spawnCount ELSE 0
    IN {[drainCallback([Cur EXCEPT !.picks = q], h1, h2, started) EXCEPT !.picks = <<>>] :
           q \in Picks(free, k)}

\* --------------------------------------------------------------- actions
GameInit ==
    /\ pc = "load"
    /\ initResult = "pending"
    /\ loopStarted = FALSE
    /\ appState = "none"
    /\ resizeListener = FALSE
    /\ orientationListener = FALSE
    /\ destroyed = FALSE
    /\ destroyThrew = FALSE
    /\ phases = <<>>
    /\ synced = {}
    /\ maxBalls \in 0..MaxBallsCap
    /\ spawnCount \in 0..onRingEscapeCount
    /\ totalBallsSpawned = 0
    /\ escapedBallsCount = 0
    /\ balls = <<>>
    /\ objects = <<>>
    /\ worldBodies = {}
    /\ bodyHandle = <<>>
    /\ escapedBallHandles = {}
    /\ particleCollisionHandles = {}
    /\ killedBallHandles = {}
    /\ timers = {}
    /\ arenaSize = 0
    /\ snapshot = {}
    /\ escapeCalls = <<>>
    /\ killCalls = <<>>

\* startLoop: let acc = 0, last = performance.now()
ClockInit ==
    /\ clockPc = "idle"
    /\ acc = 0
    /\ elapsed = 0
    /\ stepCount = 0
    /\ tickSteps = 0
    /\ ringStepDt = 0
    /\ rotation = 0

\* the ring's configuration, before createPhysics has made a collider
RingConfigured(start, width) ==
    /\ gapStartAngle = start
    /\ gapEndAngle = start + width
    /\ slot = 0
    /\ segmentSlots = {}
    /\ sensorSlot = 0
    /\ escapeSensorAngles = <<>>
    /\ cornerColliders = <<>>
    /\ ringBuilt = FALSE

\* the ring's radius, thickness and corner radius as configured
RingShape(r, th, cr) ==
    /\ radius = r
    /\ thickness = th
    /\ cornerRadius = cr

\* the window and the kill boundary's configuration before init; the
\* screen is measured in pixels and the world in units of 1 / (2 * PPM)
\* metre, so that p2m(width) / 2 is a whole number
BoundaryConfigured(w, h, off, ht) ==
    /\ screenWidth = w
    /\ screenHeight = h
    /\ offset = off
    /\ halfThickness = ht
    /\ currentPPM = 0
    /\ killBoundaryScreen = <<>>
    /\ sensorColliders = <<>>
    /\ worldKillBodies = 0
    /\ worldKillSensors = 0
    /\ onBallKill = FALSE
    /\ resizes = 0

\* scaleManager.updatePPM: the scale follows the smaller side of the
\* screen; it is counted in halves of a pixel per metre, and the screen in
\* the length that changes it by one half
updatePPM(w, h) == Min(w, h)

\* p2m: px / PPM metres
p2m(px) == 2 * px

\* ColliderDesc.cuboid(hx, hy).setTranslation(x, y)
cuboid(x, y, hx, hy) == [x |-> x, y |-> y, hx |-> hx, hy |-> hy]

\* KillBoundary.createPhysics: the top, bottom, left and right sensor for a
\* boundary whose screenDimensions are width and height
killCreatePhysics(width, height) ==
    LET screenWidthPhysics == p2m(width)
        screenHeightPhysics == p2m(height)
        halfWidth == screenWidthPhysics \div 2
        halfHeight == screenHeightPhysics \div 2
        thick == 2 * halfThickness
        boundaries ==
            << [x |-> 0, y |-> -halfHeight - offset - halfThickness,
                width |-> screenWidthPhysics + 2 * offset, height |-> thick],
               [x |-> 0, y |-> halfHeight + offset + halfThickness,
                width |-> screenWidthPhysics + 2 * offset, height |-> thick],
               [x |-> -halfWidth - offset - halfThickness, y |-> 0,
                width |-> thick, height |-> screenHeightPhysics + 2 * offset],
               [x |-> halfWidth + offset + halfThickness, y |-> 0,
                width |-> thick, height |-> screenHeightPhysics + 2 * offset] >>
    IN [k \in 1..4 |-> cuboid(boundaries[k].x, boundaries[k].y,
                              boundaries[k].width \div 2, boundaries[k].height \div 2)]

\* new KillBoundary(world, R, config, width, height): Prefab.init calls
\* createPhysics, which adds a body and four sensors to the world
NewKillBoundary(width, height) ==
    /\ killBoundaryScreen' = <<width, height>>
    /\ sensorColliders' = killCreatePhysics(width, height)
    /\ worldKillBodies' = worldKillBodies + 1
    /\ worldKillSensors' = worldKillSensors + 4

\* no world exists before init
Init ==
    /\ GameInit
    /\ integrationDt = 0
    /\ ClockInit
    /\ RingConfigured(0, 1)
    /\ RingShape(1, 4, <<>>)
    /\ BoundaryConfigured(2, 2, 1, 1)

\* Game.init resumes from `await import(...)`: the world is made and its dt
\* set, the application object is constructed and init waits for app.init
InitPhysics ==
    /\ pc = "load"
    /\ pc' = "init"
    /\ integrationDt' = fixedDt
    /\ appState' = "constructed"
    /\ UNCHANGED <<maxBalls, spawnCount, totalBallsSpawned, escapedBallsCount, balls,
                   objects, worldBodies, bodyHandle, escapedBallHandles,
                   particleCollisionHandles, killedBallHandles, timers, arenaSize,
                   snapshot, escapeCalls, killCalls>>
    /\ UNCHANGED <<initResult, loopStarted, resizeListener, orientationListener,
                   destroyed, destroyThrew>>
    /\ UNCHANGED <<clockVars, ringVars, frameVars, boundaryVars>>

\* Game.init resumes from `await this.app.init(...)` and runs to its end:
\* initializeResponsiveScaling sets the scale and adds the two window
\* listeners, the ring and the kill boundary are made and pushed, the kill
\* handler is set, then spawnInitialBall and startLoop
InitGame ==
    /\ pc = "init"
    /\ appState = "constructed"
    /\ Commit(spawnBall([Cur EXCEPT !.objects = <<ringObject, killBoundaryObject>>]))
    /\ pc' = "idle"
    /\ appState' = "ready"
    /\ resizeListener' = TRUE
    /\ orientationListener' = TRUE
    /\ loopStarted' = TRUE
    /\ initResult' = "resolved"
    /\ currentPPM' = updatePPM(screenWidth, screenHeight)
    /\ NewKillBoundary(screenWidth, screenHeight)
    /\ onBallKill' = TRUE
    /\ UNCHANGED <<screenWidth, screenHeight, offset, halfThickness, resizes>>
    /\ UNCHANGED <<maxBalls, spawnCount, snapshot, integrationDt, destroyed, destroyThrew>>
    /\ UNCHANGED <<clockVars, ringVars, frameVars>>

\* the physics module fails to load or the world to be made (at "load"), or
\* the renderer fails to start (at "init"): the catch of init logs the
\* error and init returns
InitFail ==
    /\ pc \in {"load", "init"}
    /\ pc' = "failed"
    /\ initResult' = "resolved"
    /\ UNCHANGED <<maxBalls, spawnCount, totalBallsSpawned, escapedBallsCount, balls,
                   objects, worldBodies, bodyHandle, escapedBallHandles,
                   particleCollisionHandles, killedBallHandles, timers, arenaSize,
                   snapshot, escapeCalls, killCalls, integrationDt>>
    /\ UNCHANGED <<loopStarted, appState, resizeListener, orientationListener,
                   destroyed, destroyThrew>>
    /\ UNCHANGED <<clockVars, ringVars, frameVars, boundaryVars>>

\* a pass of `while (acc >= dt)` begins: ring.step(dt) sets the ring's
\* kinematic target, particleManager.update(dt)
StepBegin ==
    /\ pc = "idle"
    /\ loopStarted
    /\ appState = "ready"
    /\ pc' = "world"
    /\ phases' = <<"ring.step">>
    /\ synced' = {}
    /\ UNCHANGED <<maxBalls, spawnCount, totalBallsSpawned, escapedBallsCount, balls,
                   objects, worldBodies, bodyHandle, escapedBallHandles,
                   particleCollisionHandles, killedBallHandles, timers, arenaSize,
                   snapshot, escapeCalls, killCalls, integrationDt>>
    /\ UNCHANGED <<hostVars, clockVars, ringVars, boundaryVars>>

\* world.step(eventQueue): the engine fixes the events of this step for the
\* colliders that exist now; drainCollisionEvents is entered
WorldStep ==
    /\ pc = "world"
    /\ pc' = "drain"
    /\ snapshot' = {balls[i] : i \in 1..Len(balls)}
    /\ phases' = phases \o <<"world.step", "drain">>
    /\ UNCHANGED synced
    /\ UNCHANGED <<maxBalls, spawnCount, totalBallsSpawned, escapedBallsCount, balls,
                   objects, worldBodies, bodyHandle, escapedBallHandles,
                   particleCollisionHandles, killedBallHandles, timers, arenaSize,
                   escapeCalls, killCalls, integrationDt>>
    /\ UNCHANGED <<hostVars, clockVars, ringVars, boundaryVars>>

\* the drain callback on the next event of the step
DispatchEvent ==
    /\ pc = "drain"
    /\ \E b \in snapshot, other \in StaticColliders, started \in BOOLEAN,
          ballFirst \in BOOLEAN :
         \E s \in EventOutcomes(b, other, started, ballFirst) : Commit(s)
    /\ UNCHANGED <<pc, maxBalls, spawnCount, snapshot, integrationDt>>
    /\ UNCHANGED <<hostVars, clockVars, ringVars, frameVars, boundaryVars>>

\* the synchronisation pass run over the objects that existed when the
\* world was stepped
StepEndSyncsStale ==
    /\ pc = "drain"
    /\ pc' = "idle"
    /\ snapshot' = {}
    /\ phases' = Append(phases, "sync")
    /\ synced' = {ringObject, killBoundaryObject} \cup {BallObject(b) : b \in snapshot}
    /\ UNCHANGED <<maxBalls, spawnCount, totalBallsSpawned, escapedBallsCount, balls,
                   objects, worldBodies, bodyHandle, escapedBallHandles,
                   particleCollisionHandles, killedBallHandles, timers, arenaSize,
                   escapeCalls, killCalls, integrationDt>>
    /\ UNCHANGED <<hostVars, clockVars, ringVars, boundaryVars>>

\* the queue is drained: objects.forEach(updateFromPhysics), acc -= dt
StepEnd ==
    /\ pc = "drain"
    /\ pc' = "idle"
    /\ snapshot' = {}
    /\ phases' = Append(phases, "sync")
    /\ synced' = {objects[i] : i \in 1..Len(objects)}
    /\ UNCHANGED <<maxBalls, spawnCount, totalBallsSpawned, escapedBallsCount, balls,
                   objects, worldBodies, bodyHandle, escapedBallHandles,
                   particleCollisionHandles, killedBallHandles, timers, arenaSize,
                   escapeCalls, killCalls, integrationDt>>
    /\ UNCHANGED <<hostVars, clockVars, ringVars, boundaryVars>>

\* a cooldown timer of handleRingCollision expires (between ticks)
TimerFire ==
    /\ pc = "idle"
    /\ \E t \in timers :
         /\ particleCollisionHandles' = particleCollisionHandles \ {t.handle}
         /\ timers' = timers \ {t}
    /\ UNCHANGED <<pc, maxBalls, spawnCount, totalBallsSpawned, escapedBallsCount, balls,
                   objects, worldBodies, bodyHandle, escapedBallHandles,
                   killedBallHandles, arenaSize, snapshot, escapeCalls, killCalls,
                   integrationDt>>
    /\ UNCHANGED <<hostVars, clockVars, ringVars, frameVars, boundaryVars>>

\* Game.destroy, called by the host's effect cleanup whenever the event loop
\* is free.  The 'resize' listener is removed; the 'orientationchange'
\* listener is an arrow function of its own, which removing resizeHandler
\* from that event does not touch.  this.app is undefined until init has
\* constructed it and this.debugUI until init has passed `await app.init`:
\* before that the call ends in a TypeError, at this.app.destroy or, when
\* the renderer lets itself be destroyed unstarted, at this.debugUI.destroy.
\* Destroying a started application releases its ticker.
Destroy ==
    /\ pc \notin {"world", "drain"}
    /\ ~destroyed
    /\ destroyed' = TRUE
    /\ resizeListener' = FALSE
    /\ \/ /\ appState = "none"
          /\ destroyThrew' = TRUE
          /\ appState' = appState
       \/ /\ appState = "constructed"
          /\ destroyThrew' = TRUE
          /\ appState' \in {"constructed", "destroyed"}
       \/ /\ appState = "ready"
          /\ destroyThrew' = FALSE
          /\ appState' = "destroyed"
    /\ UNCHANGED <<pc, maxBalls, spawnCount, totalBallsSpawned, escapedBallsCount, balls,
                   objects, worldBodies, bodyHandle, escapedBallHandles,
                   particleCollisionHandles, killedBallHandles, timers, arenaSize,
                   snapshot, escapeCalls, killCalls, integrationDt>>
    /\ UNCHANGED <<initResult, loopStarted, orientationListener>>
    /\ UNCHANGED <<clockVars, ringVars, frameVars, boundaryVars>>

Next ==
    \/ InitPhysics
    \/ InitGame
    \/ InitFail
    \/ StepBegin
    \/ WorldStep
    \/ DispatchEvent
    \/ StepEnd
    \/ TimerFire
    \/ Destroy

Spec == Init /\ [][Next]_vars

\* ---------------------------------------------------- failing physics calls
\* Game.handleBallKill when world.removeRigidBody throws: the lists are
\* spliced already and the two cleanups are not reached
handleBallKillRemoveThrows(s, h) ==
    LET killedIndex == FindBall(s, h)
        b == IF killedIndex = 0 THEN 0 ELSE s.balls[killedIndex]
        prefabIndex == IndexOf(s.objects, BallObject(b))
    IN IF killedIndex = 0
       THEN s
       ELSE [s EXCEPT !.balls = Splice(@, killedIndex),
                      !.objects = IF prefabIndex = 0 THEN @ ELSE Splice(@, prefabIndex)]

\* the drain callback on the kill-begin of live ball b, the removal of its
\* body failing: KillBoundary has added the handle to killedBallHandles and
\* called the kill handler; the exception leaves the ticker callback
KillFails ==
    /\ pc = "drain"
    /\ \E b \in snapshot \cap {balls[i] : i \in 1..Len(balls)} :
         LET h == bodyHandle[b]
         IN /\ h \notin killedBallHandles
            /\ Commit(handleBallKillRemoveThrows(
                          noteCallback([Cur EXCEPT !.killedBallHandles = @ \cup {h}],
                                       "killCalls", h),
                          h))
    /\ pc' = "faulted"
    /\ UNCHANGED <<maxBalls, spawnCount, snapshot, integrationDt>>
    /\ UNCHANGED <<hostVars, clockVars, ringVars, frameVars, boundaryVars>>

\* the drain callback on the escape-begin of live ball b, the creation of
\* the body of one of the balls to spawn failing: Ring has added the handle
\* to escapedBallHandles and called the escape handler, which has counted
\* the escape and spawned the balls before the failing one
SpawnFails ==
    /\ pc = "drain"
    /\ totalBallsSpawned < maxBalls
    /\ \E b \in snapshot \cap {balls[i] : i \in 1..Len(balls)} :
         LET h == bodyHandle[b]
             n == Min(spawnCount, maxBalls - totalBallsSpawned)
             free == (1..arenaSize) \ worldBodies
         IN /\ h \notin escapedBallHandles
            /\ \E j \in 0..(n - 1) : \E q \in Picks(free, j) :
                 Commit(spawnLoop(
                     noteCallback([Cur EXCEPT !.escapedBallHandles = @ \cup {h},
                                              !.escapedBallsCount = @ + 1,
                                              !.picks = q],
                                  "escapeCalls", h),
                     j))
    /\ pc' = "faulted"
    /\ UNCHANGED <<maxBalls, spawnCount, snapshot, integrationDt>>
    /\ UNCHANGED <<hostVars, clockVars, ringVars, frameVars, boundaryVars>>

FaultNext == Next \/ KillFails \/ SpawnFails

FaultSpec == Init /\ [][FaultNext]_vars

\* ----------------------------------------------------------------- clock
\* `while (acc >= dt)` tested with a strict comparison
loopConditionStrict(a) == a > StepDuration

\* the test of `while (acc >= dt)`
loopCondition(a) == a >= StepDuration

\* Ring.step aiming at spinSpeed * fixedStep from rest, not from the
\* current rotation
ringStepFromRest(currentRot, fixedStep) == spinSpeed * fixedStep

\* Ring.step: setNextKinematicRotation(currentRot + spinSpeed * fixedStep);
\* the world step that follows moves the kinematic body to that target
ringStep(currentRot, fixedStep) == currentRot + spinSpeed * fixedStep

\* the ticker callback up to the loop: acc += (now - last) / 1000; last = now
Tick(delta) ==
    /\ clockPc = "idle"
    /\ elapsed + delta <= MaxElapsed
    /\ acc' = acc + delta
    /\ elapsed' = elapsed + delta
    /\ tickSteps' = 0
    /\ clockPc' = "loop"
    /\ UNCHANGED <<stepCount, ringStepDt, rotation>>
    /\ UNCHANGED <<gameVars, hostVars, frameVars, ringVars, boundaryVars>>

TickAny == \E delta \in 0..MaxDelta : Tick(delta)

\* one step for the whole accumulator: ring.step(acc), acc = 0
LoopStepVariableDt ==
    /\ clockPc = "loop"
    /\ loopCondition(acc)
    /\ ringStepDt' = acc
    /\ rotation' = ringStep(rotation, acc)
    /\ stepCount' = stepCount + 1
    /\ tickSteps' = tickSteps + 1
    /\ acc' = 0
    /\ UNCHANGED <<clockPc, elapsed>>
    /\ UNCHANGED <<gameVars, hostVars, frameVars, ringVars, boundaryVars>>

\* one pass of the loop body: ring.step(dt), world.step, then acc -= dt
LoopStep ==
    /\ clockPc = "loop"
    /\ loopCondition(acc)
    /\ ringStepDt' = fixedDt
    /\ rotation' = ringStep(rotation, fixedDt)
    /\ stepCount' = stepCount + 1
    /\ tickSteps' = tickSteps + 1
    /\ acc' = acc - StepDuration
    /\ UNCHANGED <<clockPc, elapsed>>
    /\ UNCHANGED <<gameVars, hostVars, frameVars, ringVars, boundaryVars>>

\* the loop test fails: render and return from the callback
LoopExit ==
    /\ clockPc = "loop"
    /\ ~loopCondition(acc)
    /\ clockPc' = "idle"
    /\ UNCHANGED <<acc, elapsed, stepCount, tickSteps, ringStepDt, rotation>>
    /\ UNCHANGED <<gameVars, hostVars, frameVars, ringVars, boundaryVars>>

ClockNext == TickAny \/ LoopStep \/ LoopExit

\* the ticker runs on the configuration of the source; init has set the
\* world's dt before it calls startLoop
ClockStart ==
    /\ GameInit
    /\ maxBalls = MaxBallsCap
    /\ spawnCount = onRingEscapeCount
    /\ integrationDt = fixedDt
    /\ ClockInit
    /\ RingConfigured(0, 1)
    /\ RingShape(1, 4, <<>>)
    /\ BoundaryConfigured(2, 2, 1, 1)

ClockSpec == ClockStart /\ [][ClockNext]_vars

\* ----------------------------------------------------- Ring.createPhysics
\* JavaScript's %: the remainder takes the sign of the dividend
JsRem(a, n) == IF a >= 0 THEN a % n ELSE -((-a) % n)

\* normalizeAngle of isAngleInGap: ((a % 2pi) + 2pi) % 2pi
normalizeAngle(a) == JsRem(JsRem(a, TwoPi) + TwoPi, TwoPi)

\* isAngleInGap without the branch for a gap that crosses 0
isAngleInGapNoWrap(angle, gapStart, gapEnd) ==
    /\ normalizeAngle(angle) >= normalizeAngle(gapStart)
    /\ normalizeAngle(angle) <= normalizeAngle(gapEnd)

\* Ring.isAngleInGap
isAngleInGap(angle, gapStart, gapEnd) ==
    LET normAngle == normalizeAngle(angle)
        normStart == normalizeAngle(gapStart)
        normEnd == normalizeAngle(gapEnd)
    IN IF normStart > normEnd
       THEN normAngle >= normStart \/ normAngle <= normEnd
       ELSE normAngle >= normStart /\ normAngle <= normEnd

\* totalAngleStep * (i + 0.5)
midAngle(i) == 2 * i + 1

\* the bound of the segment loop: this.config.segments
segmentSlotCount(segments) == segments

\* the bound of the escape sensor loop: this.config.segments
escapeSensorCount(segments) == segments

\* the default the comment on RingConfig.cornerRadius announces
effectiveCornerRadiusQuarter(cr, th) == IF cr = <<>> THEN th \div 4 ELSE cr[1]

\* this.config.cornerRadius ?? this.config.thickness / 2
effectiveCornerRadius(cr, th) == IF cr = <<>> THEN th \div 2 ELSE cr[1]

\* one pass of the segment loop of createPhysics
CreateSegment ==
    /\ slot < segmentSlotCount(Segments)
    /\ segmentSlots' = IF isAngleInGap(midAngle(slot), gapStartAngle, gapEndAngle)
                       THEN segmentSlots
                       ELSE segmentSlots \cup {slot}
    /\ slot' = slot + 1
    /\ UNCHANGED <<gapStartAngle, gapEndAngle, radius, thickness, cornerRadius, sensorSlot,
                   escapeSensorAngles, cornerColliders, ringBuilt>>
    /\ UNCHANGED <<gameVars, hostVars, frameVars, clockVars, boundaryVars>>

\* an escape sensor loop that leaves the gap open as the segment loop does
CreateEscapeSensorSkipsGap ==
    /\ slot = segmentSlotCount(Segments)
    /\ sensorSlot < escapeSensorCount(Segments)
    /\ escapeSensorAngles' =
         IF isAngleInGap(midAngle(sensorSlot), gapStartAngle, gapEndAngle)
         THEN escapeSensorAngles
         ELSE Append(escapeSensorAngles, midAngle(sensorSlot))
    /\ sensorSlot' = sensorSlot + 1
    /\ UNCHANGED <<gapStartAngle, gapEndAngle, slot, segmentSlots, radius, thickness,
                   cornerRadius, cornerColliders, ringBuilt>>
    /\ UNCHANGED <<gameVars, hostVars, frameVars, clockVars, boundaryVars>>

\* one pass of the escape sensor loop of createPhysics, entered when the
\* segment loop has ended; the sensor's radial placement is not modelled
CreateEscapeSensor ==
    /\ slot = segmentSlotCount(Segments)
    /\ sensorSlot < escapeSensorCount(Segments)
    /\ escapeSensorAngles' = Append(escapeSensorAngles, midAngle(sensorSlot))
    /\ sensorSlot' = sensorSlot + 1
    /\ UNCHANGED <<gapStartAngle, gapEndAngle, slot, segmentSlots, radius, thickness,
                   cornerRadius, cornerColliders, ringBuilt>>
    /\ UNCHANGED <<gameVars, hostVars, frameVars, clockVars, boundaryVars>>

\* a capsule of createCornerCapsules: its centre in polar coordinates and
\* its shape
capsule(angle, r, halfHeight, capRadius) ==
    [angle |-> angle, r |-> r, halfHeight |-> halfHeight, capRadius |-> capRadius]

\* Ring.createCornerCapsules
createCornerCapsules(gapStart, gapEnd) ==
    LET cr == effectiveCornerRadius(cornerRadius, thickness)
        capsuleHalfHeight == thickness \div 4
    IN IF cr <= 0
       THEN cornerColliders
       ELSE cornerColliders \o <<capsule(gapStart, radius, capsuleHalfHeight, cr),
                                  capsule(gapEnd, radius, capsuleHalfHeight, cr)>>

\* the end of createPhysics: the corner capsules, after the sensor loop
CreateCorners ==
    /\ slot = segmentSlotCount(Segments)
    /\ sensorSlot = escapeSensorCount(Segments)
    /\ ~ringBuilt
    /\ cornerColliders' = createCornerCapsules(gapStartAngle, gapEndAngle)
    /\ ringBuilt' = TRUE
    /\ UNCHANGED <<gapStartAngle, gapEndAngle, slot, segmentSlots, radius, thickness,
                   cornerRadius, sensorSlot, escapeSensorAngles>>
    /\ UNCHANGED <<gameVars, hostVars, frameVars, clockVars, boundaryVars>>

RingNext ==
    \/ CreateSegment
    \/ CreateEscapeSensor
    \/ CreateCorners

\* the ring is built for every gap narrower than a full turn, wherever it
\* starts: below 0, across 0 or beyond a full turn
RingStart ==
    /\ GameInit
    /\ maxBalls = MaxBallsCap
    /\ spawnCount = onRingEscapeCount
    /\ integrationDt = 0
    /\ ClockInit
    /\ \E start \in (-TwoPi)..(2 * TwoPi), width \in 0..(TwoPi - 1) :
         RingConfigured(start, width)
    /\ \E r \in 1..MaxRadius, q \in 0..MaxThicknessQuarters,
          cr \in {<<>>} \cup {<<c>> : c \in (-1)..MaxCornerRadius} :
         RingShape(r, 4 * q, cr)
    /\ BoundaryConfigured(2, 2, 1, 1)

RingSpec == RingStart /\ [][RingNext]_vars

\* createPhysics with gapAngle anywhere in its range, a full turn included:
\* gapStartAngle = gapCenterAngle - gapAngle / 2 and
\* gapEndAngle = gapCenterAngle + gapAngle / 2, a full turn apart at most
GapStart ==
    /\ GameInit
    /\ maxBalls = MaxBallsCap
    /\ spawnCount = onRingEscapeCount
    /\ integrationDt = 0
    /\ ClockInit
    /\ \E start \in (-TwoPi)..TwoPi, width \in 0..TwoPi :
         RingConfigured(start, width)
    /\ \E r \in 1..MaxRadius, cr \in {<<>>, <<0>>} : RingShape(r, 4, cr)
    /\ BoundaryConfigured(2, 2, 1, 1)

GapSpec == GapStart /\ [][RingNext]_vars

\* -------------------------------------------------------- Game.handleResize
Abs(a) == IF a >= 0 THEN a ELSE -a

\* the object list as updateKillBoundaries leaves it: the old boundary
\* spliced out, the new one pushed
replaceKillBoundary(objs) ==
    Append(SelectSeq(objs, LAMBDA o : o # killBoundaryObject), killBoundaryObject)

\* Game.updateKillBoundaries: the old boundary leaves the object list and
\* the stage, a new one is made for the new screen, given the kill handler
\* and pushed; nothing is removed from the world
updateKillBoundaries(width, height) ==
    /\ objects' = replaceKillBoundary(objects)
    /\ NewKillBoundary(width, height)
    /\ onBallKill' = TRUE

\* the window is resized to w by h and the resize listener runs
\* handleResize, which reads the new app.screen
Resize ==
    /\ pc = "idle"
    /\ resizeListener
    /\ resizes < MaxResizes
    /\ resizes' = resizes + 1
    /\ \E w, h \in 1..MaxScreen :
         /\ screenWidth' = w
         /\ screenHeight' = h
         /\ currentPPM' = updatePPM(w, h)
         /\ IF Abs(updatePPM(w, h) - currentPPM) > 1
            THEN updateKillBoundaries(w, h)
            ELSE UNCHANGED <<objects, killBoundaryScreen, sensorColliders, worldKillBodies,
                             worldKillSensors, onBallKill>>
    /\ UNCHANGED <<offset, halfThickness>>
    /\ UNCHANGED <<pc, maxBalls, spawnCount, totalBallsSpawned, escapedBallsCount, balls,
                   worldBodies, bodyHandle, escapedBallHandles, particleCollisionHandles,
                   killedBallHandles, timers, arenaSize, snapshot, escapeCalls, killCalls,
                   integrationDt>>
    /\ UNCHANGED <<hostVars, clockVars, ringVars, frameVars>>

ResizeNext ==
    \/ InitPhysics
    \/ InitGame
    \/ Resize

\* the game is started at every screen size and kill boundary
\* configuration, then the window is resized
ResizeStart ==
    /\ GameInit
    /\ maxBalls = MaxBallsCap
    /\ spawnCount = onRingEscapeCount
    /\ integrationDt = 0
    /\ ClockInit
    /\ RingConfigured(0, 1)
    /\ RingShape(1, 4, <<>>)
    /\ \E w, h \in 1..MaxScreen, off \in 0..MaxOffset, ht \in 1..MaxHalfThickness :
         BoundaryConfigured(w, h, off, ht)

ResizeSpec == ResizeStart /\ [][ResizeNext]_vars

\* ------------------------------------------------- passes over the objects
\* the three loops `this.objects.forEach(...)`: the synchronisation pass of
\* a step, the visibility pass of a tick, the graphics pass of a resize
Passes == {"updateFromPhysics", "visible", "createGraphics"}

\* a pass whose callback takes a ball that has escaped out of the game
callbackCullsEscaped(pass, s, o) ==
    IF o.kind = "ball" /\ s.bodyHandle[o.id] \in s.escapedBallHandles
    THEN handleBallKill(s, s.bodyHandle[o.id])
    ELSE s

\* the callback of a pass applied to object o: obj.updateFromPhysics() sets
\* the graphic's position and rotation from the body, the visibility pass
\* sets obj.graphic.visible, the resize pass swaps the graphic on the stage;
\* none touches a list, a counter or the world
callback(pass, s, o) == s

RECURSIVE forEachFrom(_, _, _, _, _, _)
\* Array.prototype.forEach from index k: the length is read once, at the
\* start; an index the array no longer has is skipped
forEachFrom(pass, s, k, len, visited, intact) ==
    IF k > len
    THEN [state |-> s, visited |-> visited, intact |-> intact]
    ELSE IF k > Len(s.objects)
         THEN forEachFrom(pass, s, k + 1, len, visited, intact)
         ELSE LET o == s.objects[k]
                  s1 == callback(pass, s, o)
              IN forEachFrom(pass, s1, k + 1, len, Append(visited, o),
                             intact /\ s1.objects = s.objects)

\* this.objects.forEach(callback) run on state s: the state it leaves, the
\* objects visited in order, and whether the list stayed as it was
\* throughout
forEach(pass, s) == forEachFrom(pass, s, 1, Len(s.objects), <<>>, TRUE)

\* ---------------------------------------------------------------- claims
LiveBalls == {balls[i] : i \in 1..Len(balls)}
\* balls for which a callback counted in f has fired
CallsFired(f) == Cardinality({b \in 1..Len(f) : f[b] >= 1})

\* C1: in every reachable state the number of balls ever spawned is at most
\* the configured cap, for every cap including the smallest.
C1_TotalWithinCap == totalBallsSpawned <= maxBalls

\* C2: every step in which the escape callback fires raises escapedBallsCount
\* by exactly one; when the cap is already reached the step creates no ball
\* and still counts the escape.
C2_EscapeAlwaysCounted ==
    [][CallsFired(escapeCalls') > CallsFired(escapeCalls) =>
         /\ escapedBallsCount' = escapedBallsCount + 1
         /\ totalBallsSpawned >= maxBalls =>
              /\ balls' = balls
              /\ totalBallsSpawned' = totalBallsSpawned]_vars

C2_Witness ==
    /\ maxBalls = 1
    /\ escapedBallsCount = 1
    /\ totalBallsSpawned = 1
    /\ Len(balls) = 1
    /\ \E b \in LiveBalls : escapeCalls[b] = 1

C4_CallbackAtMostOnce ==
    \A b \in 1..Len(bodyHandle) : escapeCalls[b] <= 1 /\ killCalls[b] <= 1

C4_Witness ==
    /\ pc = "drain"
    /\ \E b \in snapshot \cap LiveBalls :
         /\ escapeCalls[b] = 1
         /\ bodyHandle[b] \in escapedBallHandles
         /\ \A e \in escapeSensorColliders, ballFirst \in BOOLEAN :
              EventOutcomes(b, e, TRUE, ballFirst) = {Cur}

\* C5: when the batch of a step holds the kill-begin and an escape-begin of
\* the same ball, the escape is counted whatever the order: an escape-begin
\* dispatched after the ball's kill still raises escapedBallsCount.
C5_EscapeNeverLost ==
    pc = "drain" =>
        \A b \in snapshot :
            (killCalls[b] = 1 /\ escapeCalls[b] = 0) =>
                \A e \in escapeSensorColliders, ballFirst \in BOOLEAN :
                    \A s \in EventOutcomes(b, e, TRUE, ballFirst) :
                        s.escapedBallsCount = escapedBallsCount + 1

\* C6: right after the kill of a ball its handle is in none of
\* escapedBallHandles, particleCollisionHandles and killedBallHandles.
C6_KillClearsTracking ==
    pc = "drain" =>
        \A b \in snapshot \cap LiveBalls :
            \A k \in killSensorColliders, ballFirst \in BOOLEAN :
                \A s \in EventOutcomes(b, k, TRUE, ballFirst) :
                    /\ bodyHandle[b] \notin s.escapedBallHandles
                    /\ bodyHandle[b] \notin s.particleCollisionHandles
                    /\ bodyHandle[b] \notin s.killedBallHandles

\* C7: a live ball carries no escape or kill tracking but its own, also when
\* its handle was a killed ball's: its handle is tracked as escaped exactly
\* when its own escape callback has fired and is never tracked as killed;
\* its first escape contact fires the escape callback and its first kill
\* contact fires the kill callback.
C7_FreshEntity ==
    /\ \A b \in LiveBalls :
         /\ bodyHandle[b] \in escapedBallHandles <=> escapeCalls[b] = 1
         /\ bodyHandle[b] \notin killedBallHandles
         /\ killCalls[b] = 0
    /\ pc = "drain" =>
         \A b \in snapshot \cap LiveBalls, ballFirst \in BOOLEAN :
            /\ escapeCalls[b] = 0 =>
                 \A e \in escapeSensorColliders :
                    \A s \in EventOutcomes(b, e, TRUE, ballFirst) : s.escapeCalls[b] = 1
            /\ \A k \in killSensorColliders :
                 \A s \in EventOutcomes(b, k, TRUE, ballFirst) : s.killCalls[b] = 1

C7_Witness ==
    \E a, b \in 1..Len(bodyHandle) :
        /\ a < b
        /\ bodyHandle[a] = bodyHandle[b]
        /\ escapeCalls[a] = 1 /\ killCalls[a] = 1
        /\ escapeCalls[b] = 1 /\ killCalls[b] = 1

C9_AccumulatorCarries ==
    /\ acc >= 0
    /\ stepCount * StepDuration + acc = elapsed
    /\ clockPc = "idle" =>
         /\ acc < StepDuration
         /\ stepCount = elapsed \div StepDuration

C9_Witness ==
    /\ clockPc = "idle"
    /\ tickSteps >= 2
    /\ acc > 0
    /\ stepCount > tickSteps

\* C10: the steps performed by a single tick never exceed a fixed bound,
\* however large the tick's delta.
C10_BurstBounded == tickSteps <= BurstCap

\* C11: every simulation step uses the configured fixedDt: the value passed
\* to ring.step and the world's integration dt are fixedDt at every step,
\* whatever the delta of the tick that released the step.
C11_FixedStepDuration ==
    /\ integrationDt = fixedDt
    /\ stepCount >= 1 => ringStepDt = fixedDt

C11_Witness ==
    /\ stepCount >= 2
    /\ tickSteps = 1
    /\ acc > 0
    /\ elapsed > stepCount * StepDuration
    /\ ringStepDt = fixedDt

\* C12: after n steps the ring rotation is spinSpeed * stepDuration * n,
\* however the elapsed time was split into ticks; runs with the same number
\* of steps have the same rotation.
C12_RotationByStepCount == rotation = spinSpeed * fixedDt * stepCount

C12_Witness ==
    /\ clockPc = "idle"
    /\ stepCount >= 3
    /\ tickSteps >= 1
    /\ tickSteps < stepCount
    /\ elapsed # stepCount * StepDuration
    /\ rotation = 3 * spinSpeed * fixedDt

\* the angle lies in the closed interval [gapStartAngle, gapEndAngle] taken
\* modulo a full turn
InClosedGap(angle) ==
    \E k \in -4..4 :
        /\ gapStartAngle <= angle + k * TwoPi
        /\ angle + k * TwoPi <= gapEndAngle

C14_EndOfContactIgnored ==
    pc = "drain" =>
        \A b \in snapshot, other \in StaticColliders, ballFirst \in BOOLEAN :
            EventOutcomes(b, other, FALSE, ballFirst) = {Cur}

C14_Witness ==
    /\ pc = "drain"
    /\ \E b \in snapshot \cap LiveBalls :
         /\ bodyHandle[b] \notin escapedBallHandles
         /\ bodyHandle[b] \notin particleCollisionHandles
         /\ \A other \in StaticColliders :
              /\ Cur \notin EventOutcomes(b, other, TRUE, TRUE)
              /\ EventOutcomes(b, other, FALSE, TRUE) = {Cur}

\* C15: when the physics engine or the renderer fails to start, init does
\* not complete normally (its promise is rejected) and the step loop is
\* never started.
C15_InitFailureSurfaced ==
    pc = "failed" => (initResult = "rejected" /\ ~loopStarted)

\* C16: once destroy() has been called no simulation step runs and no
\* resize or orientation-change listener is left to run, and the call did
\* not throw, also when it came while init was suspended at an await.
C16_DestroyIsFinal ==
    destroyed =>
        /\ ~destroyThrew
        /\ pc # "drain"
        /\ ~resizeListener
        /\ ~orientationListener

\* C17: the physics runs at exactly 60 Hz: sixty of the fixed steps used by
\* the accumulator loop and by the physics world make one second.
C17_SixtyHertz ==
    stepCount >= 1 =>
        /\ 60 * ringStepDt = QuantaPerSecond
        /\ 60 * integrationDt = QuantaPerSecond

\* C18: an event of the batch that names the collider of a ball removed
\* earlier in the same drain is a no-op: no callback, and counters, lists
\* and tracking sets as they were.
C18_StaleEventNoOp ==
    pc = "drain" =>
        \A b \in snapshot \ LiveBalls, other \in StaticColliders,
           started \in BOOLEAN, ballFirst \in BOOLEAN :
            EventOutcomes(b, other, started, ballFirst) = {Cur}

\* C19: no event of the batch is attributed to a ball spawned during the
\* drain of that batch: when the new ball c has the handle of ball a,
\* killed earlier in the batch, a remaining event of a neither counts c as
\* escaped nor kills it.
C19_NoEventForNewBall ==
    pc = "drain" =>
        \A a \in snapshot \ LiveBalls, c \in LiveBalls \ snapshot :
            bodyHandle[c] = bodyHandle[a] =>
                \A other \in escapeSensorColliders \cup killSensorColliders,
                   ballFirst \in BOOLEAN :
                    \A s \in EventOutcomes(a, other, TRUE, ballFirst) :
                        /\ s.escapeCalls[c] = escapeCalls[c]
                        /\ s.killCalls[c] = killCalls[c]
                        /\ \E i \in 1..Len(s.balls) : s.balls[i] = c

\* C20: when removing a ball's body or creating a ball's body fails in the
\* middle of a step, the ball list, the object list, escapedBallHandles and
\* killedBallHandles are as they were before the event was handled.
C20_BookkeepingAfterFailure ==
    [][pc' = "faulted" =>
         /\ balls' = balls
         /\ objects' = objects
         /\ escapedBallHandles' = escapedBallHandles
         /\ killedBallHandles' = killedBallHandles]_vars

\* C21: a contact-begin event between a ball and a ring segment changes
\* nothing but the particle cooldown set and its timer: counters, ball and
\* object lists, bodies, escapedBallHandles, killedBallHandles and the
\* callbacks fired are as they were.
C21_RingTouchIsAdvisory ==
    pc = "drain" =>
        \A b \in snapshot, r \in ringColliders, ballFirst \in BOOLEAN :
            \A s \in EventOutcomes(b, r, TRUE, ballFirst) :
                [s EXCEPT !.particleCollisionHandles = particleCollisionHandles,
                          !.timers = timers] = Cur

C21_Witness ==
    /\ pc = "drain"
    /\ \E b \in snapshot \cap LiveBalls :
         /\ bodyHandle[b] \in particleCollisionHandles
         /\ \E t \in timers : t.handle = bodyHandle[b]
         /\ escapeCalls[b] = 0
         /\ Len(balls) >= 2

\* the callback counted in `field` fired between the current state and s
FiredIn(s, field) == \E b \in 1..Len(bodyHandle) : s[field][b] # Cur[field][b]

\* C22: each contact-begin event has at most one owner: of the escape
\* callback, the kill callback and the wall-touch effect it triggers at
\* most one, although the ring and then the kill boundary are both offered
\* the event.
C22_AtMostOneOwner ==
    pc = "drain" =>
        \A b \in snapshot, other \in StaticColliders, ballFirst \in BOOLEAN :
            \A s \in EventOutcomes(b, other, TRUE, ballFirst) :
                LET escaped == FiredIn(s, "escapeCalls")
                    killed == FiredIn(s, "killCalls")
                    touched == s.particleCollisionHandles # particleCollisionHandles
                IN /\ ~(escaped /\ killed)
                   /\ ~(escaped /\ touched)
                   /\ ~(killed /\ touched)

C22_Witness ==
    /\ pc = "drain"
    /\ \E a \in 1..Len(bodyHandle) : killCalls[a] = 1
    /\ \E b \in snapshot \cap LiveBalls :
         /\ \E e \in escapeSensorColliders :
              \E s \in EventOutcomes(b, e, TRUE, TRUE) : FiredIn(s, "escapeCalls")
         /\ \E k \in killSensorColliders :
              \E s \in EventOutcomes(b, k, TRUE, TRUE) : FiredIn(s, "killCalls")
         /\ \E r \in ringColliders :
              \E s \in EventOutcomes(b, r, TRUE, TRUE) :
                 s.particleCollisionHandles # particleCollisionHandles

\* C23: within every step the phases run in this order, each once: the
\* ring's target is set, the world is stepped, the events are drained, and
\* only then every object of the object list is synchronised; the pass
\* covers the list as the step's spawns and removals left it.
C23_StepPhaseOrder ==
    /\ pc = "world" => phases = <<"ring.step">>
    /\ pc = "drain" => (phases = <<"ring.step", "world.step", "drain">> /\ synced = {})
    /\ (pc = "idle" /\ phases # <<>>) =>
         /\ phases = <<"ring.step", "world.step", "drain", "sync">>
         /\ synced = {objects[i] : i \in 1..Len(objects)}
         /\ \A b \in 1..Len(bodyHandle) : BallObject(b) \in synced <=> b \in LiveBalls

C23_Witness ==
    /\ pc = "idle"
    /\ phases = <<"ring.step", "world.step", "drain", "sync">>
    /\ \E a, b \in 1..Len(bodyHandle) :
         /\ killCalls[a] = 1
         /\ BallObject(a) \notin synced
         /\ escapeCalls[a] = 1
         /\ BallObject(b) \in synced

\* C24: in every reachable state the length of the ball list equals
\* totalBallsSpawned minus the number of balls removed by kill handling, and
\* so exceeds neither totalBallsSpawned nor maxBalls.
C24_LiveBallsAccounted ==
    /\ Len(balls) = totalBallsSpawned - CallsFired(killCalls)
    /\ Len(balls) <= totalBallsSpawned
    /\ Len(balls) <= maxBalls

\* C25: the escape sensors form a closed ring: for every gap start and
\* width the sensor loop creates exactly one sensor for each of the N
\* slots, in slot order, also for the slots whose segment was skipped.
C25_SensorRingClosed ==
    /\ Len(escapeSensorAngles) = sensorSlot
    /\ \A i \in 0..(sensorSlot - 1) :
         Cardinality({k \in 1..Len(escapeSensorAngles) :
                         escapeSensorAngles[k] = midAngle(i)}) = 1
    /\ ringBuilt => sensorSlot = Segments

C25_Witness ==
    /\ ringBuilt
    /\ Cardinality(segmentSlots) < Segments - 1
    /\ gapStartAngle < 0
    /\ \E i \in 0..(Segments - 1) :
         /\ i \notin segmentSlots
         /\ \E k \in 1..Len(escapeSensorAngles) : escapeSensorAngles[k] = midAngle(i)

\* C26: the number of segment slots and the number of escape sensors are
\* independent configuration values: some configuration builds a ring
\* whose escape sensor count differs from its segment slot count.
C26_CountsIndependent ==
    ringBuilt =>
        \E n \in 1..Segments : escapeSensorCount(n) # segmentSlotCount(n)

C27_WitnessNone ==
    /\ ringBuilt
    /\ cornerColliders = <<>>

\* C28: whenever the screen dimensions change the kill boundary is
\* recomputed: after every resize, however small, the sensors that produce
\* kill callbacks are placed for the new screen width and height and the
\* kill handler is attached to them.
C28_BoundaryFollowsScreen ==
    pc = "idle" =>
        /\ killBoundaryScreen = <<screenWidth, screenHeight>>
        /\ sensorColliders = killCreatePhysics(screenWidth, screenHeight)
        /\ onBallKill

\* C29: at every moment after init, and after any sequence of resizes, the
\* world holds exactly four kill-boundary sensor colliders and one
\* kill-boundary body.
C29_OneBoundaryInWorld ==
    pc = "idle" => (worldKillSensors = 4 /\ worldKillBodies = 1)

\* a point lies inside a sensor
InSensor(px, py, c) == Abs(px - c.x) <= c.hx /\ Abs(py - c.y) <= c.hy

\* C30: the four kill sensors form a closed frame around the screen: every
\* point of the band between the rectangle at distance offset from the
\* screen edges and the rectangle at distance offset + thickness, the four
\* corner squares included, lies inside at least one kill sensor.
C30_FrameClosed ==
    pc = "idle" =>
        LET innerX == p2m(killBoundaryScreen[1]) \div 2 + offset
            innerY == p2m(killBoundaryScreen[2]) \div 2 + offset
            outerX == innerX + 2 * halfThickness
            outerY == innerY + 2 * halfThickness
        IN \A px \in (-outerX)..outerX, py \in (-outerY)..outerY :
              (Abs(px) >= innerX \/ Abs(py) >= innerY) =>
                  \E k \in 1..Len(sensorColliders) : InSensor(px, py, sensorColliders[k])

\* the objects of sequence q
Range(q) == {q[i] : i \in 1..Len(q)}

\* C31: the object list is not modified while a pass over it runs: the
\* synchronisation, visibility and resize passes each visit the objects in
\* list order and leave the list as it was at every visit, also right after
\* the kill boundary was replaced; spawns append, and removing a ball keeps
\* the order of the others.
C31_ListIntactWhileIterating ==
    /\ \A pass \in Passes :
         /\ forEach(pass, Cur).intact
         /\ forEach(pass, Cur).visited = objects
         /\ forEach(pass, Cur).state = Cur
         /\ LET replaced == [Cur EXCEPT !.objects = replaceKillBoundary(objects)]
            IN /\ forEach(pass, replaced).intact
               /\ forEach(pass, replaced).visited = replaced.objects
    /\ pc = "drain" =>
         \A b \in snapshot, other \in StaticColliders, ballFirst \in BOOLEAN :
            \A s \in EventOutcomes(b, other, TRUE, ballFirst) :
                LET kept == SelectSeq(objects, LAMBDA o : o \in Range(s.objects))
                IN /\ SubSeq(s.objects, 1, Len(kept)) = kept
                   /\ \A i \in (Len(kept) + 1)..Len(s.objects) :
                        /\ s.objects[i] \notin Range(objects)
                        /\ s.objects[i] = BallObject(Len(bodyHandle) + i - Len(kept))

C31_Witness ==
    /\ pc = "drain"
    /\ Len(balls) >= 2
    /\ \E b \in snapshot \cap LiveBalls :
         /\ b # balls[Len(balls)]
         /\ bodyHandle[b] \in escapedBallHandles
         /\ \E k \in killSensorColliders :
              \E s \in EventOutcomes(b, k, TRUE, TRUE) : Len(s.objects) = Len(objects) - 1

\* how often x occurs in sequence q
Count(q, x) == Cardinality({i \in 1..Len(q) : q[i] = x})

\* the list holds the ring, the kill boundary and the balls of the ball
\* list, each once, and nothing else
Registered(objs) ==
    /\ Len(objs) = Len(balls) + 2
    /\ Count(objs, ringObject) = 1
    /\ Count(objs, killBoundaryObject) = 1
    /\ \A b \in LiveBalls : Count(objs, BallObject(b)) = 1

\* C32: after init, between event dispatches, the object list holds exactly
\* the ring, the current kill boundary and every ball of the ball list,
\* each once, also after the kill boundary was replaced; no killed ball is
\* in either list, and no two live balls share a body handle.
C32_RegistryConsistent ==
    pc \in {"idle", "world", "drain"} =>
        /\ Registered(objects)
        /\ Registered(replaceKillBoundary(objects))
        /\ \A b \in LiveBalls : Count(balls, b) = 1 /\ bodyHandle[b] \in worldBodies
        /\ \A b \in 1..Len(bodyHandle) :
             killCalls[b] >= 1 => (b \notin LiveBalls /\ BallObject(b) \notin Range(objects))
        /\ \A a, b \in LiveBalls : a # b => bodyHandle[a] # bodyHandle[b]

C32_Witness ==
    /\ pc = "drain"
    /\ Len(balls) >= 2
    /\ objects[Len(objects)] # killBoundaryObject
    /\ \E a \in 1..Len(bodyHandle), b \in LiveBalls :
         /\ killCalls[a] = 1
         /\ a < balls[1]
         /\ bodyHandle[b] = bodyHandle[a]

\* C33: after every event dispatch escapedBallHandles holds only body
\* handles of live balls and killedBallHandles is empty; neither set grows
\* with the number of balls killed so far.
C33_TrackingSetsBounded ==
    /\ escapedBallHandles \subseteq {bodyHandle[b] : b \in LiveBalls}
    /\ killedBallHandles = {}
    /\ Cardinality(escapedBallHandles) <= Len(balls)
    /\ pc = "drain" =>
         \A b \in snapshot, other \in StaticColliders, ballFirst \in BOOLEAN :
            \A s \in EventOutcomes(b, other, TRUE, ballFirst) :
                /\ s.escapedBallHandles \subseteq {s.bodyHandle[s.balls[i]] : i \in 1..Len(s.balls)}
                /\ s.killedBallHandles = {}

C33_Witness ==
    /\ pc = "drain"
    /\ CallsFired(killCalls) >= 2
    /\ \E a \in 1..Len(bodyHandle) : escapeCalls[a] = 1 /\ killCalls[a] = 1
    /\ \E b \in LiveBalls : bodyHandle[b] \in escapedBallHandles

\* C34: escapedBallsCount never exceeds totalBallsSpawned, since each ball
\* is counted as escaped at most once; so at most maxBalls escapes are
\* counted and at most maxBalls balls are killed in a run.
C34_EscapesWithinSpawns ==
    /\ escapedBallsCount <= totalBallsSpawned
    /\ \A b \in 1..Len(bodyHandle) : escapeCalls[b] <= 1
    /\ escapedBallsCount <= maxBalls
    /\ CallsFired(killCalls) <= maxBalls

\* C35: the cap bounds the balls ever spawned, not the live ones: from a
\* state in which totalBallsSpawned has reached maxBalls no step spawns a
\* ball, whatever was killed; and once the game has started and no ball is
\* left, none ever appears again.
C35_CapIsCumulative ==
    [][/\ totalBallsSpawned >= maxBalls =>
            (totalBallsSpawned' = totalBallsSpawned /\ Len(bodyHandle') = Len(bodyHandle))
       /\ (pc \in {"idle", "world", "drain"} /\ balls = <<>>) => balls' = <<>>]_vars

\* C36: a step in which the kill callback fires leaves totalBallsSpawned
\* and escapedBallsCount as they were and removes exactly the killed ball
\* from the ball list and the object list, every other entry staying in
\* place; no step of a run lowers either counter.
C36_KillFrame ==
    [][/\ totalBallsSpawned' >= totalBallsSpawned
       /\ escapedBallsCount' >= escapedBallsCount
       /\ CallsFired(killCalls') > CallsFired(killCalls) =>
            /\ totalBallsSpawned' = totalBallsSpawned
            /\ escapedBallsCount' = escapedBallsCount
            /\ \E b \in LiveBalls :
                 /\ killCalls[b] = 0
                 /\ killCalls'[b] = 1
                 /\ balls' = SelectSeq(balls, LAMBDA x : x # b)
                 /\ objects' = SelectSeq(objects, LAMBDA o : o # BallObject(b))
                 /\ worldBodies' = worldBodies \ {bodyHandle[b]}]_vars

C36_Witness ==
    /\ pc = "drain"
    /\ totalBallsSpawned = 3
    /\ escapedBallsCount >= 1
    /\ Len(balls) = 2
    /\ \E a \in 1..Len(bodyHandle) :
         /\ killCalls[a] = 1
         /\ balls[1] < a
         /\ a < balls[2]

\* twice the angular distance between an angle and the gap centre: the
\* centre is gapStartAngle plus half the width, and the distance is the
\* shorter way round the circle
GapWidth == gapEndAngle - gapStartAngle

CentreDistance2(angle) ==
    LET e == (2 * angle - gapStartAngle - gapEndAngle + 8 * TwoPi) % (2 * TwoPi)
    IN Min(e, 2 * TwoPi - e)

\* C37: for every gap centre and every gap width from 0 to a full turn,
\* the midpoint of a slot is in the gap, and the slot has no segment,
\* exactly when its angular distance to the gap centre is at most half the
\* width; a ring whose gap is a full turn has no segment at all.
C37_GapIsDistanceToCentre ==
    /\ \A i \in 0..(slot - 1) :
         i \notin segmentSlots <=> CentreDistance2(midAngle(i)) <= GapWidth
    /\ GapWidth = TwoPi => segmentSlots = {}

\* the claim for the gaps narrower than a full turn
C37_NarrowGaps ==
    GapWidth < TwoPi =>
        \A i \in 0..(slot - 1) :
            i \notin segmentSlots <=> CentreDistance2(midAngle(i)) <= GapWidth

C37_Witness ==
    /\ slot = Segments
    /\ GapWidth = TwoPi
    /\ segmentSlots # {}
\* the pending cooldown timers that captured handle h
TimersOf(h) == {t \in timers : t.handle = h}

\* C38: a cooldown timer clears the entry of the ball that started it and
\* no other: every entry of particleCollisionHandles has exactly one pending
\* timer, the one started with it, also when its ball has been removed and
\* another ball has taken the handle; once a timer has fired its entry is
\* gone, so there is no entry without a pending timer.
C38_TimerClearsOwnEntry ==
    /\ \A h \in particleCollisionHandles : Cardinality(TimersOf(h)) = 1
    /\ \A t \in timers : t.handle \in particleCollisionHandles

\* the timer of a removed ball is pending while another ball has its handle
C38_Witness ==
    /\ pc = "idle"
    /\ \E t \in timers :
         /\ t.ball \notin LiveBalls
         /\ \E b \in LiveBalls : b # t.ball /\ bodyHandle[b] = t.handle
====
